---- MODULE Spec2Model ----
(***************************************************************************)
(* Model of the error-reports sanitization and validation pipeline         *)
(* (src/sanitize.py, src/validate.py).                                     *)
(*                                                                         *)
(* A JSON/Python value is a record [t, s]: t is the Python type name and s *)
(* its canonical text as a sequence of one-character strings (the decimal  *)
(* digits of an int, the repr of a float, the characters of a str, a       *)
(* placeholder element per item of a list or dict).  Integers are kept as  *)
(* decimal text because hash_id's results range up to 2^32 - 1.            *)
(* A dict record is a function from its keys to values.                    *)
(***************************************************************************)
EXTENDS Integers, Sequences, FiniteSets, TLC

VARIABLES
  record,      \* sanitize: the dict being sanitized in place
  original,    \* sanitize: snapshot of the dict as it was loaded
  results,     \* sanitize: the dict after each sanitize_record call on it
  prev,        \* sanitize: user_id before/after of the record sanitized before this one
  text,        \* redact: the input of redact_text
  nfrag,       \* redact: number of fragments the input was built from
  redactions,  \* redact: the output of each successive redact_text call
  root,        \* validate: what load_json finds in the file
  npad,        \* validate: number of leading copies the array was started with
  sample_size, \* validate: validate_file's sample_size argument
  outcome,     \* validate: what validate_file returned, or that it raised
  rec_in,      \* validate_record: its record argument
  rec_index,   \* validate_record: its index argument
  rec_out,     \* validate_record: the result of the call, once made
  sf_input,    \* sanitize_file: the input file (whether it exists, its text)
  sf_verbose,  \* sanitize_file: its verbose argument
  sf_pc,       \* sanitize_file: where the call stands
  sf_loaded,   \* sanitize_file: what load_json returned, as it was returned
  sf_data,     \* sanitize_file: data, sanitized in place
  sf_i,        \* sanitize_file: number of elements the loop has passed
  sf_error,    \* sanitize_file: the exception that left the call, and where it arose
  sf_dest0,    \* sanitize_file: the destination before the call
  sf_dest,     \* sanitize_file: the destination now
  sf_mkdir     \* sanitize_file: whether save_json's mkdir has been called

sanitizeVars == <<record, original, results, prev>>
redactVars == <<text, nfrag, redactions>>
fileVars == <<root, npad, sample_size, outcome>>
recordVars == <<rec_in, rec_index, rec_out>>
pipeVars == <<sf_input, sf_verbose, sf_pc, sf_loaded, sf_data, sf_i, sf_error,
              sf_dest0, sf_dest, sf_mkdir>>
vars == <<record, original, results, prev, text, nfrag, redactions,
          root, npad, sample_size, outcome, rec_in, rec_index, rec_out,
          sf_input, sf_verbose, sf_pc, sf_loaded, sf_data, sf_i, sf_error,
          sf_dest0, sf_dest, sf_mkdir>>

(***************************** bounds **************************************)
MaxCalls == 2     \* successive calls of sanitize_record / redact_text on one input
MaxFrags == 4     \* fragments an input text is built from
MaxPad == 6       \* leading copies of one element in a validated array
MaxTail == 2      \* further elements of a validated array
MaxSample == 7    \* largest sample_size passed to validate_file
MaxIndex == 1     \* largest index passed to validate_record alone

(************************* Python values ***********************************)
NoneV == [t |-> "NoneType", s |-> <<>>]
IntV(d) == [t |-> "int", s |-> d]
FloatV(d) == [t |-> "float", s |-> d]
StrV(d) == [t |-> "str", s |-> d]
TrueV == [t |-> "bool", s |-> <<"T", "r", "u", "e">>]
FalseV == [t |-> "bool", s |-> <<"F", "a", "l", "s", "e">>]

\* bool(value): Python truthiness
Truthy(v) ==
  CASE v.t = "NoneType" -> FALSE
    [] v.t = "bool" -> v = TrueV
    [] v.t = "int" -> v.s # <<"0">>
    [] v.t = "float" -> v.s # <<"0", ".", "0">>
    [] OTHER -> Len(v.s) > 0

\* str(value), for the scalar types
PyStr(v) ==
  CASE v.t = "NoneType" -> <<"N", "o", "n", "e">>
    [] v.t \in {"bool", "int", "float", "str"} -> v.s

\* the number a numeric value denotes, as decimal text (floats of the model are integral)
NumKey(v) ==
  CASE v.t = "bool" -> IF v = TrueV THEN <<"1">> ELSE <<"0">>
    [] v.t = "int" -> v.s
    [] v.t = "float" -> SubSeq(v.s, 1, Len(v.s) - 2)

IsNumeric(v) == v.t \in {"bool", "int", "float"}

\* a == b in Python: numbers compare by value across bool/int/float
PyEq(a, b) ==
  IF IsNumeric(a) /\ IsNumeric(b) THEN NumKey(a) = NumKey(b)
  ELSE a.t = b.t /\ a.s = b.s

Absent == [t |-> "absent", s |-> <<>>]
EmptyDict == [k \in {} |-> NoneV]

(************************* sanitize.py *************************************)
TextFieldsAndToolId ==
  {"command_line", "tool_stderr", "tool_stdout", "job_stderr", "job_stdout",
   "traceback", "info", "tool_id"}

TEXT_FIELDS ==
  {"command_line", "tool_stderr", "tool_stdout", "job_stderr", "job_stdout",
   "traceback", "info"}

FieldsToRemoveOnlySession == {"session_id"}

FIELDS_TO_REMOVE == {"session_id", "history_id"}

\* int(hashlib.sha256(s.encode()).hexdigest()[:8], 16) as decimal text, tabulated
\* for the strings the bounded model hashes
Sha256Prefix32(s) ==
  CASE s = <<"0">> -> <<"1", "6", "0", "9", "3", "6", "2", "2", "7", "8">>
    [] s = <<"1">> -> <<"1", "8", "0", "3", "9", "8", "9", "6", "1", "9">>
    [] s = <<"2">> -> <<"3", "5", "6", "4", "3", "3", "0", "5", "5", "4">>
    [] s = <<"3">> -> <<"1", "3", "0", "9", "0", "9", "8", "1", "1", "7">>
    [] s = <<"4">> -> <<"1", "2", "6", "0", "5", "5", "0", "0", "0", "7">>
    [] s = <<"0", ".", "0">> -> <<"2", "3", "3", "0", "8", "1", "3", "4", "8", "3">>
    [] s = <<"1", ".", "0">> -> <<"3", "5", "0", "6", "3", "9", "5", "5", "0", "8">>
    [] s = <<"2", ".", "0">> -> <<"3", "6", "2", "8", "8", "4", "9", "9", "7", "2">>
    [] s = <<"3", ".", "0">> -> <<"2", "7", "5", "2", "9", "6", "5", "2", "5", "2">>
    [] s = <<"4", ".", "0">> -> <<"4", "2", "2", "4", "7", "3", "2", "6", "9", "8">>
    [] s = <<"T", "r", "u", "e">> -> <<"1", "0", "1", "8", "9", "8", "8", "4", "8", "7">>
    [] s = <<"F", "a", "l", "s", "e">> -> <<"1", "6", "2", "1", "3", "1", "1", "0", "8", "4">>
    [] s = <<"a", "l", "i", "c", "e">> -> <<"7", "3", "5", "5", "7", "7", "8", "0", "1">>
    [] s = <<"1", "6", "0", "9", "3", "6", "2", "2", "7", "8">> -> <<"1", "0", "2", "0", "2", "4", "8", "4", "8", "9">>
    [] s = <<"1", "8", "0", "3", "9", "8", "9", "6", "1", "9">> -> <<"3", "8", "0", "9", "4", "3", "8", "3", "5", "3">>
    [] s = <<"3", "5", "6", "4", "3", "3", "0", "5", "5", "4">> -> <<"3", "8", "8", "7", "3", "4", "6", "6", "1", "6">>
    [] s = <<"1", "3", "0", "9", "0", "9", "8", "1", "1", "7">> -> <<"2", "1", "9", "9", "0", "3", "2", "1", "5", "2">>
    [] s = <<"1", "2", "6", "0", "5", "5", "0", "0", "0", "7">> -> <<"2", "2", "4", "8", "5", "9", "4", "3", "3", "6">>
    [] s = <<"2", "3", "3", "0", "8", "1", "3", "4", "8", "3">> -> <<"7", "0", "8", "8", "4", "9", "4", "5", "0">>
    [] s = <<"3", "5", "0", "6", "3", "9", "5", "5", "0", "8">> -> <<"1", "2", "7", "6", "2", "0", "7", "9", "5", "3">>
    [] s = <<"3", "6", "2", "8", "8", "4", "9", "9", "7", "2">> -> <<"1", "6", "1", "9", "2", "1", "3", "1", "1", "9">>
    [] s = <<"2", "7", "5", "2", "9", "6", "5", "2", "5", "2">> -> <<"8", "6", "3", "0", "3", "4", "2", "0", "5">>
    [] s = <<"4", "2", "2", "4", "7", "3", "2", "6", "9", "8">> -> <<"3", "9", "8", "6", "4", "8", "9", "5", "1", "6">>
    [] s = <<"1", "0", "1", "8", "9", "8", "8", "4", "8", "7">> -> <<"3", "2", "3", "1", "7", "8", "9", "9", "2", "6">>
    [] s = <<"1", "6", "2", "1", "3", "1", "1", "0", "8", "4">> -> <<"3", "5", "1", "4", "2", "7", "2", "0", "7", "2">>
    [] s = <<"7", "3", "5", "5", "7", "7", "8", "0", "1">> -> <<"1", "3", "7", "9", "9", "7", "4", "3", "0", "9">>
    [] s = <<"1", "0", "2", "0", "2", "4", "8", "4", "8", "9">> -> <<"2", "8", "4", "8", "6", "5", "4", "1", "9", "9">>
    [] s = <<"3", "8", "0", "9", "4", "3", "8", "3", "5", "3">> -> <<"3", "3", "0", "5", "9", "5", "5", "9", "8">>
    [] s = <<"3", "8", "8", "7", "3", "4", "6", "6", "1", "6">> -> <<"2", "9", "4", "6", "8", "0", "7", "7", "5", "2">>
    [] s = <<"2", "1", "9", "9", "0", "3", "2", "1", "5", "2">> -> <<"1", "6", "9", "5", "4", "3", "4", "0", "5", "4">>
    [] s = <<"2", "2", "4", "8", "5", "9", "4", "3", "3", "6">> -> <<"3", "1", "9", "3", "2", "0", "4", "7", "7", "9">>
    [] s = <<"7", "0", "8", "8", "4", "9", "4", "5", "0">> -> <<"3", "8", "1", "2", "7", "2", "0", "3", "1", "1">>
    [] s = <<"1", "2", "7", "6", "2", "0", "7", "9", "5", "3">> -> <<"1", "5", "6", "3", "7", "1", "6", "1", "0", "8">>
    [] s = <<"1", "6", "1", "9", "2", "1", "3", "1", "1", "9">> -> <<"1", "2", "3", "3", "9", "4", "2", "6", "8", "9">>
    [] s = <<"8", "6", "3", "0", "3", "4", "2", "0", "5">> -> <<"2", "7", "3", "9", "9", "6", "8", "5", "3", "9">>
    [] s = <<"3", "9", "8", "6", "4", "8", "9", "5", "1", "6">> -> <<"7", "4", "2", "9", "4", "8", "0", "7", "4">>
    [] s = <<"3", "2", "3", "1", "7", "8", "9", "9", "2", "6">> -> <<"2", "0", "7", "7", "3", "7", "5", "4", "2", "4">>
    [] s = <<"3", "5", "1", "4", "2", "7", "2", "0", "7", "2">> -> <<"1", "6", "4", "9", "3", "2", "4", "1", "2", "9">>
    [] s = <<"1", "3", "7", "9", "9", "7", "4", "3", "0", "9">> -> <<"1", "9", "2", "1", "8", "2", "3", "7", "9", "4">>
    [] s = <<"2", "8", "4", "8", "6", "5", "4", "1", "9", "9">> -> <<"2", "4", "3", "1", "9", "3", "1", "5", "2", "4">>
    [] s = <<"3", "3", "0", "5", "9", "5", "5", "9", "8">> -> <<"1", "7", "3", "4", "5", "9", "5", "7", "0", "3">>
    [] s = <<"2", "9", "4", "6", "8", "0", "7", "7", "5", "2">> -> <<"1", "0", "3", "5", "9", "5", "2", "2", "9", "0">>
    [] s = <<"1", "6", "9", "5", "4", "3", "4", "0", "5", "4">> -> <<"1", "3", "4", "0", "3", "2", "2", "5", "7">>
    [] s = <<"3", "1", "9", "3", "2", "0", "4", "7", "7", "9">> -> <<"1", "4", "4", "9", "6", "5", "2", "1", "9", "5">>
    [] s = <<"3", "8", "1", "2", "7", "2", "0", "3", "1", "1">> -> <<"4", "0", "7", "5", "5", "3", "1", "1", "7", "0">>
    [] s = <<"1", "5", "6", "3", "7", "1", "6", "1", "0", "8">> -> <<"2", "4", "1", "2", "4", "6", "2", "9", "6", "4">>
    [] s = <<"1", "2", "3", "3", "9", "4", "2", "6", "8", "9">> -> <<"1", "0", "6", "2", "3", "9", "3", "2", "0", "7">>
    [] s = <<"2", "7", "3", "9", "9", "6", "8", "5", "3", "9">> -> <<"2", "3", "4", "2", "5", "3", "3", "9", "3", "6">>
    [] s = <<"7", "4", "2", "9", "4", "8", "0", "7", "4">> -> <<"3", "4", "1", "6", "9", "5", "6", "3", "1", "7">>
    [] s = <<"2", "0", "7", "7", "3", "7", "5", "4", "2", "4">> -> <<"2", "8", "5", "8", "3", "5", "4", "5", "0", "8">>
    [] s = <<"1", "6", "4", "9", "3", "2", "4", "1", "2", "9">> -> <<"1", "2", "3", "6", "4", "4", "8", "3", "1", "1">>
    [] s = <<"1", "9", "2", "1", "8", "2", "3", "7", "9", "4">> -> <<"3", "3", "2", "0", "4", "5", "6", "0", "8", "0">>
    [] s = <<"2", "4", "3", "1", "9", "3", "1", "5", "2", "4">> -> <<"2", "1", "9", "7", "9", "0", "4", "6", "6", "9">>
    [] s = <<"1", "7", "3", "4", "5", "9", "5", "7", "0", "3">> -> <<"6", "4", "3", "9", "0", "9", "7", "1", "3">>
    [] s = <<"1", "0", "3", "5", "9", "5", "2", "2", "9", "0">> -> <<"2", "2", "3", "8", "4", "6", "1", "6", "4", "1">>
    [] s = <<"1", "3", "4", "0", "3", "2", "2", "5", "7">> -> <<"3", "2", "3", "1", "6", "4", "1", "1", "9", "1">>
    [] s = <<"1", "4", "4", "9", "6", "5", "2", "1", "9", "5">> -> <<"6", "4", "7", "2", "9", "8", "3", "5", "3">>
    [] s = <<"4", "0", "7", "5", "5", "3", "1", "1", "7", "0">> -> <<"3", "8", "5", "0", "5", "5", "5", "8", "7">>
    [] s = <<"2", "4", "1", "2", "4", "6", "2", "9", "6", "4">> -> <<"1", "9", "8", "3", "7", "7", "3", "8", "4", "3">>
    [] s = <<"1", "0", "6", "2", "3", "9", "3", "2", "0", "7">> -> <<"2", "8", "6", "3", "4", "1", "3", "4", "5", "2">>
    [] s = <<"2", "3", "4", "2", "5", "3", "3", "9", "3", "6">> -> <<"1", "3", "2", "9", "3", "4", "8", "8", "5">>
    [] s = <<"3", "4", "1", "6", "9", "5", "6", "3", "1", "7">> -> <<"4", "6", "2", "5", "7", "4", "3", "3", "1">>
    [] s = <<"2", "8", "5", "8", "3", "5", "4", "5", "0", "8">> -> <<"1", "7", "1", "3", "9", "9", "9", "6", "0", "9">>
    [] s = <<"1", "2", "3", "6", "4", "4", "8", "3", "1", "1">> -> <<"1", "2", "7", "1", "7", "8", "4", "4", "7", "0">>
    [] s = <<"3", "3", "2", "0", "4", "5", "6", "0", "8", "0">> -> <<"3", "2", "6", "2", "7", "2", "9", "8", "9", "0">>

hash_id(value) ==
  IF value = NoneV THEN NoneV ELSE IntV(Sha256Prefix32(PyStr(value)))

Lower == {"a", "b", "c", "d", "e", "f", "g", "h", "i", "j", "k", "l", "m",
          "n", "o", "p", "q", "r", "s", "t", "u", "v", "w", "x", "y", "z"}
Upper == {"A", "B", "C", "D", "E", "F", "G", "H", "I", "J", "K", "L", "M",
          "N", "O", "P", "Q", "R", "S", "T", "U", "V", "W", "X", "Y", "Z"}
Digit == {"0", "1", "2", "3", "4", "5", "6", "7", "8", "9"}

\* \s
IsSpace(c) == c \in {" ", "\t", "\n"}
\* [a-zA-Z0-9_.-]
IsNameChar(c) == c \in Lower \cup Upper \cup Digit \cup {"_", ".", "-"}

\* last index of the run of characters satisfying P (by kind) that starts at p;
\* p - 1 when t[p] is not of the kind
RECURSIVE NonSpaceEnd(_, _)
NonSpaceEnd(t, p) ==
  IF p > Len(t) \/ IsSpace(t[p]) THEN p - 1 ELSE NonSpaceEnd(t, p + 1)

RECURSIVE NameEnd(_, _)
NameEnd(t, p) ==
  IF p > Len(t) \/ ~IsNameChar(t[p]) THEN p - 1 ELSE NameEnd(t, p + 1)

\* EMAIL_PATTERN = \S+@\S+\.\S+ matched at position p: the index of the match's last
\* character, 0 when there is no match at p.  The three greedy \S+ stay inside the
\* non-whitespace run of p; the last one always extends to the end of the run.
EMAIL_PATTERN(t, p) ==
  LET e == NonSpaceEnd(t, p)
  IN IF \E i \in (p + 1)..e : t[i] = "@" /\ \E j \in (i + 2)..(e - 1) : t[j] = "."
     THEN e ELSE 0

\* t[p..] starts with the literal lit
StartsWith(t, p, lit) ==
  /\ p + Len(lit) - 1 <= Len(t)
  /\ \A k \in 1..Len(lit) : t[p + k - 1] = lit[k]

\* HOME_PATH_PATTERN = /home/[a-zA-Z0-9_.-]+ matched at position p
HOME_PATH_PATTERN(t, p) ==
  IF StartsWith(t, p, <<"/", "h", "o", "m", "e", "/">>) /\ NameEnd(t, p + 6) >= p + 6
  THEN NameEnd(t, p + 6) ELSE 0

\* re.IGNORECASE on an ASCII letter
FoldsTo(c, l) ==
  \/ c = l
  \/ <<c, l>> \in {<<"U", "u">>, <<"S", "s">>, <<"E", "e">>, <<"R", "r">>}

\* USER_PATH_PATTERN = /users?/[a-zA-Z0-9_.-]+ with re.IGNORECASE, matched at p
USER_PATH_PATTERN(t, p) ==
  LET q == p + 5
      head == /\ q <= Len(t)
              /\ t[p] = "/"
              /\ FoldsTo(t[p + 1], "u") /\ FoldsTo(t[p + 2], "s")
              /\ FoldsTo(t[p + 3], "e") /\ FoldsTo(t[p + 4], "r")
  IN IF ~head THEN 0
     ELSE IF FoldsTo(t[q], "s") /\ q + 1 <= Len(t) /\ t[q + 1] = "/"
             /\ NameEnd(t, q + 2) >= q + 2
          THEN NameEnd(t, q + 2)
     ELSE IF t[q] = "/" /\ NameEnd(t, q + 1) >= q + 1
          THEN NameEnd(t, q + 1)
     ELSE 0

EMAIL_REPL == <<"[", "E", "M", "A", "I", "L", "]">>
HOME_REPL == <<"/", "h", "o", "m", "e", "/", "[", "U", "S", "E", "R", "]">>
USER_REPL == <<"/", "u", "s", "e", "r", "/", "[", "U", "S", "E", "R", "]">>

\* pattern.sub(repl, t, count=1): only the leftmost match
RECURSIVE EmailSubFirstOnly(_, _)
EmailSubFirstOnly(t, p) ==
  IF p > Len(t) THEN <<>>
  ELSE LET e == EMAIL_PATTERN(t, p)
       IN IF e > 0 THEN EMAIL_REPL \o SubSeq(t, e + 1, Len(t))
          ELSE <<t[p]>> \o EmailSubFirstOnly(t, p + 1)

RECURSIVE UserSubFirstOnly(_, _)
UserSubFirstOnly(t, p) ==
  IF p > Len(t) THEN <<>>
  ELSE LET e == USER_PATH_PATTERN(t, p)
       IN IF e > 0 THEN USER_REPL \o SubSeq(t, e + 1, Len(t))
          ELSE <<t[p]>> \o UserSubFirstOnly(t, p + 1)

\* pattern.sub(repl, t): every non-overlapping match, scanning from the left
RECURSIVE EmailSub(_, _)
EmailSub(t, p) ==
  IF p > Len(t) THEN <<>>
  ELSE LET e == EMAIL_PATTERN(t, p)
       IN IF e > 0 THEN EMAIL_REPL \o EmailSub(t, e + 1)
          ELSE <<t[p]>> \o EmailSub(t, p + 1)

RECURSIVE HomeSub(_, _)
HomeSub(t, p) ==
  IF p > Len(t) THEN <<>>
  ELSE LET e == HOME_PATH_PATTERN(t, p)
       IN IF e > 0 THEN HOME_REPL \o HomeSub(t, e + 1)
          ELSE <<t[p]>> \o HomeSub(t, p + 1)

RECURSIVE UserSub(_, _)
UserSub(t, p) ==
  IF p > Len(t) THEN <<>>
  ELSE LET e == USER_PATH_PATTERN(t, p)
       IN IF e > 0 THEN USER_REPL \o UserSub(t, e + 1)
          ELSE <<t[p]>> \o UserSub(t, p + 1)

redact_text(value) ==
  IF ~Truthy(value) THEN value
  ELSE LET t0 == PyStr(value)
           t1 == EmailSub(t0, 1)
           t2 == HomeSub(t1, 1)
           t3 == UserSub(t2, 1)
       IN StrV(t3)

sanitize_record(rec) ==
  LET r1 == IF "user_id" \in DOMAIN rec
            THEN [rec EXCEPT !["user_id"] = hash_id(rec["user_id"])]
            ELSE rec
      r2 == [k \in DOMAIN r1 \ FIELDS_TO_REMOVE |-> r1[k]]
  IN [k \in DOMAIN r2 |->
        IF k \in TEXT_FIELDS /\ Truthy(r2[k]) THEN redact_text(r2[k]) ELSE r2[k]]

(************************* validate.py *************************************)
ListV(d) == [t |-> "list", s |-> d]
DictV(d) == [t |-> "dict", s |-> d]

\* REQUIRED_FIELDS, in the order the dict is iterated
REQUIRED_FIELDS ==
  << [name |-> "id", types |-> {"int", "NoneType"}],
     [name |-> "create_time", types |-> {"str"}],
     [name |-> "tool_id", types |-> {"str", "NoneType"}],
     [name |-> "state", types |-> {"str"}] >>

OPTIONAL_FIELDS ==
  << [name |-> "exit_code", types |-> {"int", "float", "NoneType"}],
     [name |-> "tool_stderr", types |-> {"str", "NoneType"}],
     [name |-> "tool_stdout", types |-> {"str", "NoneType"}],
     [name |-> "tool_version", types |-> {"str", "NoneType"}],
     [name |-> "destination_id", types |-> {"str", "NoneType"}],
     [name |-> "user_id", types |-> {"int", "float", "NoneType"}],
     [name |-> "job_stderr", types |-> {"str", "NoneType"}],
     [name |-> "job_stdout", types |-> {"str", "NoneType"}],
     [name |-> "handler", types |-> {"str", "NoneType"}],
     [name |-> "update_time", types |-> {"str", "NoneType"}],
     [name |-> "session_id", types |-> {"int", "NoneType"}],
     [name |-> "history_id", types |-> {"int", "NoneType"}] >>

\* the number in "if len(errors) > 100" and in the marker's text
ERROR_CAP == 100

\* isinstance(value, types): bool is a subclass of int
IsInstance(v, types) == v.t \in types \/ (v.t = "bool" /\ "int" \in types)

\* an element of the JSON array: a dict with its items, or another JSON value
DictElem(d) == [isdict |-> TRUE, d |-> d, v |-> NoneV]
OtherElem(v) == [isdict |-> FALSE, d |-> EmptyDict, v |-> v]

\* one entry of the error list
Msg(i, kind, field, got) == [index |-> i, kind |-> kind, field |-> field, got |-> got]
STOPPED_MARKER == Msg(-1, "stopped after 100 errors", "", "")

Returned(errs) == [raised |-> FALSE, errors |-> errs]
Raised == [raised |-> TRUE, errors |-> <<>>]

\* the loop over REQUIRED_FIELDS.items()
RECURSIVE RequiredErrors(_, _, _)
RequiredErrors(d, index, k) ==
  IF k > Len(REQUIRED_FIELDS) THEN <<>>
  ELSE LET f == REQUIRED_FIELDS[k]
           here == IF f.name \notin DOMAIN d
                   THEN <<Msg(index, "missing required field", f.name, "")>>
                   ELSE IF ~IsInstance(d[f.name], f.types)
                   THEN <<Msg(index, "wrong type, expected", f.name, d[f.name].t)>>
                   ELSE <<>>
       IN here \o RequiredErrors(d, index, k + 1)

\* the loop over OPTIONAL_FIELDS.items()
RECURSIVE OptionalErrors(_, _, _)
OptionalErrors(d, index, k) ==
  IF k > Len(OPTIONAL_FIELDS) THEN <<>>
  ELSE LET f == OPTIONAL_FIELDS[k]
           here == IF /\ f.name \in DOMAIN d
                      /\ d[f.name] # NoneV
                      /\ ~IsInstance(d[f.name], f.types)
                   THEN <<Msg(index, "wrong type", f.name, d[f.name].t)>>
                   ELSE <<>>
       IN here \o OptionalErrors(d, index, k + 1)

\* len(ct) raises TypeError for a number; ct[4] raises KeyError and ct[:30]
\* raises TypeError for a dict
CreateTimeRaises(ct) == ct.t \in {"bool", "int", "float", "dict"}

\* len(ct) >= 19 and ct[4] == '-' and ct[7] == '-' and ct[10] == 'T'
LooksIso8601(ct) ==
  Len(ct.s) >= 19 /\ ct.s[5] = "-" /\ ct.s[8] = "-" /\ ct.s[11] = "T"

validate_record(rec, index) ==
  IF ~rec.isdict THEN Returned(<<Msg(index, "not a dictionary", "", "")>>)
  ELSE LET d == rec.d
           e1 == RequiredErrors(d, index, 1) \o OptionalErrors(d, index, 1)
       IN IF "create_time" \in DOMAIN d /\ Truthy(d["create_time"])
          THEN IF CreateTimeRaises(d["create_time"]) THEN Raised
               ELSE IF ~LooksIso8601(d["create_time"])
               THEN Returned(Append(e1, Msg(index, "create_time not in ISO8601 format", "create_time", "")))
               ELSE Returned(e1)
          ELSE Returned(e1)

\* states_found.add(value) raises TypeError for an unhashable value
Unhashable(v) == v.t \in {"list", "dict"}

\* set.add: a value equal (==) to a member is not added again
SetAdd(S, v) == IF \E e \in S : PyEq(e, v) THEN S ELSE S \cup {v}

\* a < b is defined
Orderable(a, b) == (IsNumeric(a) /\ IsNumeric(b)) \/ (a.t = "str" /\ b.t = "str")

\* sorted(S) raises TypeError when two members cannot be ordered
SortedRaises(S) == \E a, b \in S : a # b /\ ~Orderable(a, b)

Min(a, b) == IF a < b THEN a ELSE b

\* the loop "for i in range(check_count)"; acc is the loop's state, acc.checked
\* counts the calls of validate_record
RECURSIVE FullCheckLoop(_, _, _, _)
FullCheckLoop(data, i, check_count, acc) ==
  IF i >= check_count THEN acc
  ELSE LET rec == data[i + 1]
           vr == validate_record(rec, i)
           errs == acc.errors \o vr.errors
           called == [acc EXCEPT !.checked = @ + 1]
       IN IF vr.raised THEN [called EXCEPT !.raised = TRUE]
          ELSE IF rec.isdict /\ "state" \in DOMAIN rec.d /\ Unhashable(rec.d["state"])
          THEN [called EXCEPT !.raised = TRUE, !.errors = errs]
          ELSE LET next == [called EXCEPT
                              !.errors = errs,
                              !.fields = IF rec.isdict THEN @ \cup DOMAIN rec.d ELSE @,
                              !.states = IF rec.isdict /\ "state" \in DOMAIN rec.d
                                         THEN SetAdd(@, rec.d["state"]) ELSE @]
               IN IF Len(errs) > ERROR_CAP
                  THEN [next EXCEPT !.errors = Append(errs, STOPPED_MARKER)]
                  ELSE FullCheckLoop(data, i + 1, check_count, next)

\* the loop "for i in range(sample_size, total)"
RECURSIVE RestCheckLoop(_, _, _)
RestCheckLoop(data, i, errs) ==
  IF i >= Len(data) THEN errs
  ELSE IF ~data[i + 1].isdict
  THEN LET e == Append(errs, Msg(i, "not a dictionary", "", ""))
       IN IF Len(e) > ERROR_CAP THEN e ELSE RestCheckLoop(data, i + 1, e)
  ELSE RestCheckLoop(data, i + 1, errs)

\* all(f in fields_found for f in OPTIONAL_FIELDS): the wrong schema is looked up
AllOptionalFieldsPresent(fields) ==
  \A k \in 1..Len(OPTIONAL_FIELDS) : OPTIONAL_FIELDS[k].name \in fields

\* all(f in fields_found for f in REQUIRED_FIELDS)
RequiredFieldsPresent(fields) ==
  \A k \in 1..Len(REQUIRED_FIELDS) : REQUIRED_FIELDS[k].name \in fields

\* a non-empty stats dict returned where {} is meant
StatsWithZeroCounts ==
  [empty |-> FALSE, total_records |-> 0, records_validated |-> 0, fields_found |-> {},
   states_found |-> {}, required_fields_present |-> FALSE]

EmptyStats ==
  [empty |-> TRUE, total_records |-> 0, records_validated |-> 0, fields_found |-> {},
   states_found |-> {}, required_fields_present |-> FALSE]

FileRaised ==
  [raised |-> TRUE, is_valid |-> FALSE, stats |-> EmptyStats, errors |-> <<>>, checked |-> 0]

FileReturned(valid, stats, errs, checked) ==
  [raised |-> FALSE, is_valid |-> valid, stats |-> stats, errors |-> errs, checked |-> checked]

\* validate_file on what the file holds; the result's checked field counts the
\* calls of validate_record made
validate_file(content, sample) ==
  IF content.kind = "invalid json"
  THEN FileReturned(FALSE, EmptyStats, <<Msg(-1, "Invalid JSON", "", "")>>, 0)
  ELSE IF content.kind = "missing"
  THEN FileReturned(FALSE, EmptyStats, <<Msg(-1, "Error loading file", "", "")>>, 0)
  ELSE IF content.kind # "array"
  THEN FileReturned(FALSE, EmptyStats, <<Msg(-1, "JSON root must be an array of records", "", "")>>, 0)
  ELSE
    LET data == content.data
        total == Len(data)
        check_count == IF sample = 0 THEN total ELSE Min(sample, total)
        first == FullCheckLoop(data, 0, check_count,
                   [errors |-> <<>>, fields |-> {}, states |-> {}, raised |-> FALSE,
                    checked |-> 0])
        errs == IF sample > 0 /\ total > sample
                THEN RestCheckLoop(data, sample, first.errors)
                ELSE first.errors
        present == RequiredFieldsPresent(first.fields)
        stats == [empty |-> FALSE, total_records |-> total,
                  records_validated |-> check_count, fields_found |-> first.fields,
                  states_found |-> first.states, required_fields_present |-> present]
    IN IF first.raised \/ SortedRaises(first.states) THEN FileRaised
       ELSE FileReturned(Len(errs) = 0 /\ present, stats, errs, first.checked)

(********************** sanitize: inputs and steps *************************)

FieldUniverse == {"user_id", "session_id", "history_id", "command_line", "tool_id"}

\* the dict with the given values, a field whose value is Absent left out
MakeDict(full) == [k \in {f \in DOMAIN full : full[f] # Absent} |-> full[k]]

UserIdValues ==
  {Absent, NoneV, IntV(<<"1">>), FloatV(<<"1", ".", "0">>), IntV(<<"2">>), StrV(<<"1">>)}
SessionIdValues == {Absent, IntV(<<"7">>)}
HistoryIdValues == {Absent, IntV(<<"9">>)}
CommandLineValues ==
  {Absent, StrV(<<>>), IntV(<<"5">>),
   StrV(<<"a", "@", "b", ".", "c", " ", "/", "h", "o", "m", "e", "/", "a", "l">>)}
ToolIdValues == {Absent, StrV(<<"a", "@", "b", ".", "c">>)}

RawRecords ==
  { MakeDict([k \in FieldUniverse |->
       CASE k = "user_id" -> u [] k = "session_id" -> se [] k = "history_id" -> h
         [] k = "command_line" -> c [] k = "tool_id" -> tl]) :
    u \in UserIdValues, se \in SessionIdValues, h \in HistoryIdValues,
    c \in CommandLineValues, tl \in ToolIdValues }

NoPrev == [has |-> FALSE, uid |-> NoneV, out |-> NoneV]

SanitizeIdle ==
  /\ record = EmptyDict /\ original = EmptyDict /\ results = <<>> /\ prev = NoPrev

RedactIdle == text = StrV(<<>>) /\ nfrag = 0 /\ redactions = <<>>

NoOutcome ==
  [raised |-> FALSE, is_valid |-> FALSE, stats |-> EmptyStats, errors |-> <<>>, checked |-> -1]

FileIdle ==
  /\ root = [kind |-> "array", data |-> <<>>] /\ npad = 0 /\ sample_size = 0
  /\ outcome = NoOutcome

RecordIdle == rec_in = OtherElem(NoneV) /\ rec_index = 0 /\ rec_out = <<>>

\* what json.load can return: a list of elements, a dict, or a scalar
RootList(items) == [kind |-> "list", items |-> items, d |-> EmptyDict, v |-> NoneV]
RootDict(d) == [kind |-> "dict", items |-> <<>>, d |-> d, v |-> NoneV]
RootScalar(v) == [kind |-> "scalar", items |-> <<>>, d |-> EmptyDict, v |-> v]

\* a file: whether it exists and its text; the destination also has its directory
MissingFile == [exists |-> FALSE, text |-> <<>>]
File(t) == [exists |-> TRUE, text |-> t]
Dest(dir, f) == [dir |-> dir, file |-> f]

NoError == [type |-> "", origin |-> ""]

PipeIdle ==
  /\ sf_input = MissingFile /\ sf_verbose = FALSE /\ sf_pc = "idle"
  /\ sf_loaded = RootScalar(NoneV) /\ sf_data = RootScalar(NoneV) /\ sf_i = 0
  /\ sf_error = NoError
  /\ sf_dest0 = Dest(FALSE, MissingFile) /\ sf_dest = Dest(FALSE, MissingFile)
  /\ sf_mkdir = FALSE

\* sanitize_file's loop body: one more call of sanitize_record on the current dict
SanitizeCall ==
  /\ Len(results) < MaxCalls
  /\ record' = sanitize_record(record)
  /\ results' = Append(results, record')
  /\ UNCHANGED <<original, prev>>
  /\ UNCHANGED <<redactVars, fileVars, recordVars, pipeVars>>

\* the next raw record (of this run or of another run) is taken up
LoadRecord ==
  /\ results # <<>>
  /\ \E r \in RawRecords : record' = r /\ original' = r
  /\ results' = <<>>
  /\ prev' = IF results # <<>> /\ "user_id" \in DOMAIN original
             THEN [has |-> TRUE, uid |-> original["user_id"],
                   out |-> results[1]["user_id"]]
             ELSE prev
  /\ UNCHANGED <<redactVars, fileVars, recordVars, pipeVars>>

InitSanitize ==
  /\ record \in RawRecords /\ original = record /\ results = <<>> /\ prev = NoPrev
  /\ RedactIdle /\ FileIdle /\ RecordIdle /\ PipeIdle

NextSanitize == SanitizeCall \/ LoadRecord

SpecSanitize == InitSanitize /\ [][NextSanitize]_vars

(*********************** redact: inputs and steps **************************)
Fragments ==
  { <<"/", "h", "o", "m", "e", "/">>, <<"/", "u", "s", "e", "r", "s", "/">>,
    <<"/", "U", "S", "E", "R", "/">>, <<"a", "l">>, <<"x", "@", "y", ".", "z">>,
    <<"@">>, <<".", "c">>, <<" ">> }

\* the input text grows by one fragment
Extend ==
  /\ redactions = <<>> /\ nfrag < MaxFrags
  /\ \E f \in Fragments : text' = StrV(text.s \o f)
  /\ nfrag' = nfrag + 1
  /\ UNCHANGED redactions
  /\ UNCHANGED <<sanitizeVars, fileVars, recordVars, pipeVars>>

\* redact_text on the input, then on its own output
Redact ==
  /\ Len(redactions) < MaxCalls
  /\ redactions' = Append(redactions,
        redact_text(IF redactions = <<>> THEN text ELSE redactions[Len(redactions)]))
  /\ UNCHANGED <<text, nfrag>>
  /\ UNCHANGED <<sanitizeVars, fileVars, recordVars, pipeVars>>

InitRedact == RedactIdle /\ SanitizeIdle /\ FileIdle /\ RecordIdle /\ PipeIdle

NextRedact == Extend \/ Redact

SpecRedact == InitRedact /\ [][NextRedact]_vars


(********************* validate: inputs and steps **************************)
ISO_TIME == <<"2", "0", "2", "4", "-", "0", "1", "-", "0", "1", "T", "0", "0", ":", "0", "0", ":", "0", "0">>

GoodDict ==
  [k \in {"id", "create_time", "tool_id", "state"} |->
     CASE k = "id" -> IntV(<<"1">>) [] k = "create_time" -> StrV(ISO_TIME)
       [] k = "tool_id" -> StrV(<<"t">>) [] k = "state" -> StrV(<<"e", "r", "r", "o", "r">>)]

Without(d, key) == [k \in DOMAIN d \ {key} |-> d[k]]
With(d, key, v) == [k \in DOMAIN d \cup {key} |-> IF k = key THEN v ELSE d[k]]

\* a dict on which validate_record reports 17 errors
WorstDict ==
  [k \in {"id", "create_time", "tool_id"}
         \cup {OPTIONAL_FIELDS[n].name : n \in 1..Len(OPTIONAL_FIELDS)} |->
     CASE k = "id" -> StrV(<<"x">>)
       [] k = "create_time" -> ListV(<<"x">>)
       [] k = "tool_id" -> IntV(<<"5">>)
       [] OTHER -> ListV(<<>>)]

FileElems ==
  { DictElem(GoodDict),
    DictElem(With(With(GoodDict, "state", StrV(<<"o", "k">>)), "tool_id", NoneV)),
    DictElem(Without(GoodDict, "state")),
    DictElem(With(GoodDict, "state", IntV(<<"5">>))),
    DictElem(With(GoodDict, "create_time", IntV(<<"5">>))),
    DictElem(With(GoodDict, "create_time", StrV(<<"b", "a", "d">>))),
    DictElem(WorstDict),
    OtherElem(IntV(<<"5">>)) }

PadElems == { DictElem(WorstDict), OtherElem(IntV(<<"5">>)) }

RootKinds == {"array", "invalid json", "missing", "object"}

\* the file's array starts with k copies of one element
Pad ==
  /\ outcome = NoOutcome /\ root.kind = "array" /\ root.data = <<>>
  /\ \E e \in PadElems, k \in 1..MaxPad :
       /\ root' = [root EXCEPT !.data = [n \in 1..k |-> e]]
       /\ npad' = k
  /\ UNCHANGED <<sample_size, outcome>>
  /\ UNCHANGED <<sanitizeVars, redactVars, recordVars, pipeVars>>

\* one more element at the end of the file's array
AddRecord ==
  /\ outcome = NoOutcome /\ root.kind = "array" /\ Len(root.data) < npad + MaxTail
  /\ \E e \in FileElems : root' = [root EXCEPT !.data = Append(@, e)]
  /\ UNCHANGED <<npad, sample_size, outcome>>
  /\ UNCHANGED <<sanitizeVars, redactVars, recordVars, pipeVars>>

\* validate_file(filepath, sample_size)
ValidateFile ==
  /\ outcome = NoOutcome
  /\ \E n \in 0..MaxSample :
       /\ sample_size' = n
       /\ outcome' = validate_file(root, n)
  /\ UNCHANGED <<root, npad>>
  /\ UNCHANGED <<sanitizeVars, redactVars, recordVars, pipeVars>>

InitValidate ==
  /\ root \in {[kind |-> k, data |-> <<>>] : k \in RootKinds}
  /\ npad = 0 /\ sample_size = 0 /\ outcome = NoOutcome
  /\ SanitizeIdle /\ RedactIdle /\ RecordIdle /\ PipeIdle

NextValidate == Pad \/ AddRecord \/ ValidateFile

SpecValidate == InitValidate /\ [][NextValidate]_vars

(****************** validate_record: inputs and steps **********************)
FieldValues(f) ==
  CASE f = "id" -> {IntV(<<"1">>), NoneV, TrueV, StrV(<<"x">>)}
    [] f = "create_time" ->
         {StrV(ISO_TIME), StrV(<<"b", "a", "d">>), StrV(<<>>), IntV(<<"5">>), NoneV, ListV(<<"x">>)}
    [] f = "tool_id" -> {StrV(<<"t">>), NoneV, IntV(<<"5">>)}
    [] f = "state" -> {StrV(<<"e", "r", "r", "o", "r">>), IntV(<<"5">>), ListV(<<"x">>)}
    [] f = "user_id" -> {FloatV(<<"1", ".", "0">>), StrV(<<"u">>)}

RecordFields == {"id", "create_time", "tool_id", "state", "user_id"}

\* record[f] = v on the dict that will be validated
SetField ==
  /\ rec_out = <<>> /\ rec_in.isdict
  /\ \E f \in RecordFields : \E v \in FieldValues(f) :
       rec_in' = DictElem(With(rec_in.d, f, v))
  /\ UNCHANGED <<rec_index, rec_out>>
  /\ UNCHANGED <<sanitizeVars, redactVars, fileVars, pipeVars>>

\* validate_record(record, index)
ValidateRecord ==
  /\ rec_out = <<>>
  /\ rec_out' = <<validate_record(rec_in, rec_index)>>
  /\ UNCHANGED <<rec_in, rec_index>>
  /\ UNCHANGED <<sanitizeVars, redactVars, fileVars, pipeVars>>

InitRecord ==
  /\ rec_in \in {DictElem(EmptyDict), OtherElem(StrV(<<"x">>))}
  /\ rec_index \in 0..MaxIndex
  /\ rec_out = <<>>
  /\ SanitizeIdle /\ RedactIdle /\ FileIdle /\ PipeIdle

NextRecord == SetField \/ ValidateRecord

SpecRecord == InitRecord /\ [][NextRecord]_vars

(******************* sanitize.py: load_json, save_json *********************)

MaxFileLen == 2   \* elements of an array handed to sanitize_file

\* A JSON text is the sequence of its tokens, each the sequence of its characters.
LBRACKET == <<"[">>
RBRACKET == <<"]">>
LBRACE == <<"{">>
RBRACE == <<"}">>
ITEM_SEPARATOR == <<",", " ">>
KEY_SEPARATOR == <<":", " ">>
NULL == <<"n", "u", "l", "l">>
TRUE_LIT == <<"t", "r", "u", "e">>
FALSE_LIT == <<"f", "a", "l", "s", "e">>

\* the characters of the dict keys that occur, in the order the keys are written
KeyOrder == <<"user_id", "session_id", "history_id", "command_line", "tool_id", "a">>
KeyText(k) ==
  CASE k = "user_id" -> <<"u", "s", "e", "r", "_", "i", "d">>
    [] k = "session_id" -> <<"s", "e", "s", "s", "i", "o", "n", "_", "i", "d">>
    [] k = "history_id" -> <<"h", "i", "s", "t", "o", "r", "y", "_", "i", "d">>
    [] k = "command_line" -> <<"c", "o", "m", "m", "a", "n", "d", "_", "l", "i", "n", "e">>
    [] k = "tool_id" -> <<"t", "o", "o", "l", "_", "i", "d">>
    [] k = "a" -> <<"a">>

\* json.dump of a str: quotes around the characters, the special ones escaped
RECURSIVE Escape(_, _)
Escape(s, p) ==
  IF p > Len(s) THEN <<>>
  ELSE (CASE s[p] = "\"" -> <<"\\", "\"">>
          [] s[p] = "\\" -> <<"\\", "\\">>
          [] s[p] = "\n" -> <<"\\", "n">>
          [] s[p] = "\t" -> <<"\\", "t">>
          [] OTHER -> <<s[p]>>) \o Escape(s, p + 1)

DumpStr(s) == <<"\"">> \o Escape(s, 1) \o <<"\"">>

\* json.dump of None, a bool, an int, a float or a str
DumpScalar(v) ==
  CASE v.t = "NoneType" -> NULL
    [] v.t = "bool" -> IF v = TrueV THEN TRUE_LIT ELSE FALSE_LIT
    [] v.t = "int" -> v.s
    [] v.t = "float" -> v.s
    [] v.t = "str" -> DumpStr(v.s)

RECURSIVE DumpMembers(_, _, _)
DumpMembers(d, ks, j) ==
  IF j > Len(ks) THEN <<>>
  ELSE (IF j > 1 THEN <<ITEM_SEPARATOR>> ELSE <<>>)
       \o <<DumpStr(KeyText(ks[j])), KEY_SEPARATOR, DumpScalar(d[ks[j]])>>
       \o DumpMembers(d, ks, j + 1)

DumpDict(d) ==
  <<LBRACE>> \o DumpMembers(d, SelectSeq(KeyOrder, LAMBDA k : k \in DOMAIN d), 1)
             \o <<RBRACE>>

DumpElem(e) == IF e.isdict THEN DumpDict(e.d) ELSE <<DumpScalar(e.v)>>

RECURSIVE DumpItems(_, _)
DumpItems(items, j) ==
  IF j > Len(items) THEN <<>>
  ELSE (IF j > 1 THEN <<ITEM_SEPARATOR>> ELSE <<>>) \o DumpElem(items[j])
       \o DumpItems(items, j + 1)

\* json.dump(data, f): the text written for data
JsonDump(value) ==
  CASE value.kind = "list" -> <<LBRACKET>> \o DumpItems(value.items, 1) \o <<RBRACKET>>
    [] value.kind = "dict" -> DumpDict(value.d)
    [] value.kind = "scalar" -> <<DumpScalar(value.v)>>

\* json.load: the token is a string, a number, or one of null, true, false
IsStringToken(l) == Len(l) >= 2 /\ l[1] = "\"" /\ l[Len(l)] = "\""
IsNumberToken(l) ==
  /\ Len(l) >= 1
  /\ l[1] \in Digit \cup {"-"}
  /\ l[Len(l)] \in Digit
  /\ \A p \in 1..Len(l) : l[p] \in Digit \cup {"-", "+", ".", "e", "E"}
IsScalarToken(l) ==
  IsStringToken(l) \/ IsNumberToken(l) \/ l = NULL \/ l = TRUE_LIT \/ l = FALSE_LIT

RECURSIVE Unescape(_, _)
Unescape(s, p) ==
  IF p > Len(s) THEN <<>>
  ELSE IF s[p] = "\\" /\ p < Len(s)
       THEN <<(CASE s[p + 1] = "n" -> "\n" [] s[p + 1] = "t" -> "\t"
                 [] OTHER -> s[p + 1])>> \o Unescape(s, p + 2)
       ELSE <<s[p]>> \o Unescape(s, p + 1)

StringOf(l) == Unescape(SubSeq(l, 2, Len(l) - 1), 1)

\* a number with a fraction or an exponent is a float, any other an int
ParseScalar(l) ==
  IF IsStringToken(l) THEN StrV(StringOf(l))
  ELSE IF l = NULL THEN NoneV
  ELSE IF l = TRUE_LIT THEN TrueV
  ELSE IF l = FALSE_LIT THEN FalseV
  ELSE IF \E p \in 1..Len(l) : l[p] \in {".", "e", "E"} THEN FloatV(l)
  ELSE IntV(l)

KeyOf(l) == CHOOSE k \in {KeyOrder[j] : j \in 1..Len(KeyOrder)} : KeyText(k) = StringOf(l)

ParseFailed == [ok |-> FALSE, e |-> OtherElem(NoneV), items |-> <<>>, next |-> 0]

\* the members of an object from token p on, up to its closing brace; a repeated
\* key keeps its last value
RECURSIVE ParseMembers(_, _, _)
ParseMembers(toks, p, d) ==
  IF p + 3 > Len(toks) \/ ~IsStringToken(toks[p]) \/ toks[p + 1] # KEY_SEPARATOR
     \/ ~IsScalarToken(toks[p + 2])
  THEN ParseFailed
  ELSE LET d2 == With(d, KeyOf(toks[p]), ParseScalar(toks[p + 2]))
       IN IF toks[p + 3] = RBRACE
          THEN [ok |-> TRUE, e |-> DictElem(d2), items |-> <<>>, next |-> p + 4]
          ELSE IF toks[p + 3] = ITEM_SEPARATOR THEN ParseMembers(toks, p + 4, d2)
          ELSE ParseFailed

\* one element of an array: an object of scalars, or a scalar
ParseElem(toks, p) ==
  IF p > Len(toks) THEN ParseFailed
  ELSE IF toks[p] = LBRACE
       THEN IF p + 1 <= Len(toks) /\ toks[p + 1] = RBRACE
            THEN [ok |-> TRUE, e |-> DictElem(EmptyDict), items |-> <<>>, next |-> p + 2]
            ELSE ParseMembers(toks, p + 1, EmptyDict)
  ELSE IF IsScalarToken(toks[p])
       THEN [ok |-> TRUE, e |-> OtherElem(ParseScalar(toks[p])), items |-> <<>>,
             next |-> p + 1]
  ELSE ParseFailed

RECURSIVE ParseItems(_, _, _)
ParseItems(toks, p, acc) ==
  LET r == ParseElem(toks, p)
  IN IF ~r.ok \/ r.next > Len(toks) THEN ParseFailed
     ELSE IF toks[r.next] = RBRACKET
          THEN [ok |-> TRUE, e |-> OtherElem(NoneV), items |-> Append(acc, r.e),
                next |-> r.next + 1]
     ELSE IF toks[r.next] = ITEM_SEPARATOR
          THEN ParseItems(toks, r.next + 1, Append(acc, r.e))
     ELSE ParseFailed

JsonDecodeError == [ok |-> FALSE, value |-> RootScalar(NoneV)]
Loaded(value) == [ok |-> TRUE, value |-> value]

\* json.load(f): the value of a text, or JSONDecodeError; the whole text must be used
JsonLoad(toks) ==
  IF toks = <<>> THEN JsonDecodeError
  ELSE IF toks[1] = LBRACKET
       THEN IF Len(toks) = 2 /\ toks[2] = RBRACKET THEN Loaded(RootList(<<>>))
            ELSE LET r == ParseItems(toks, 2, <<>>)
                 IN IF r.ok /\ r.next = Len(toks) + 1 THEN Loaded(RootList(r.items))
                    ELSE JsonDecodeError
  ELSE LET r == ParseElem(toks, 1)
       IN IF r.ok /\ r.next = Len(toks) + 1
          THEN Loaded(IF r.e.isdict THEN RootDict(r.e.d) ELSE RootScalar(r.e.v))
          ELSE JsonDecodeError

\* load_json(filepath): the loaded value, or the exception open or json.load raises
load_json(f) ==
  IF ~f.exists THEN [raised |-> TRUE, type |-> "FileNotFoundError", value |-> RootScalar(NoneV)]
  ELSE LET r == JsonLoad(f.text)
       IN IF ~r.ok
          THEN [raised |-> TRUE, type |-> "JSONDecodeError", value |-> RootScalar(NoneV)]
          ELSE [raised |-> FALSE, type |-> "", value |-> r.value]

(************************ sanitize.py: sanitize_file ***********************)

\* len(data) raises TypeError for a number, a bool and None
LenRaises(value) == value.kind = "scalar" /\ value.v.t # "str"

\* what "for i, record in enumerate(data)" yields: the items of a list, the keys
\* of a dict, the characters of a str
Elements(value) ==
  CASE value.kind = "list" -> value.items
    [] value.kind = "dict" ->
         LET ks == SelectSeq(KeyOrder, LAMBDA k : k \in DOMAIN value.d)
         IN [j \in 1..Len(ks) |-> OtherElem(StrV(KeyText(ks[j])))]
    [] value.kind = "scalar" ->
         IF value.v.t = "str"
         THEN [j \in 1..Len(value.v.s) |-> OtherElem(StrV(<<value.v.s[j]>>))]
         ELSE <<>>

\* sanitize_record on an element that is no dict: "'user_id' in record" raises
\* TypeError for a number, a bool and None; for a str it is a substring test, and
\* then record['user_id'] = ... raises TypeError or record.pop raises AttributeError
SanitizeRecordError(e) ==
  IF e.v.t = "str" /\ ~(\E p \in 1..Len(e.v.s) : StartsWith(e.v.s, p, KeyText("user_id")))
  THEN "AttributeError"
  ELSE "TypeError"

\* the loop body acting on the element as a copy that is thrown away
SanitizeCopy(value, i) == value

\* sanitize_record(record) acts in place on the i-th element of data
SanitizeInPlace(value, i) ==
  [value EXCEPT !.items[i] = DictElem(sanitize_record(value.items[i].d))]

\* the save placed inside the loop
SaveAnyTime(value, i) == TRUE

\* save_json is reached when the for loop has passed every element
LoopFinished(value, i) == i = Len(Elements(value))

(******************** sanitize_file: inputs and steps **********************)

FileRecords ==
  { [user_id |-> FloatV(<<"1", ".", "0">>), session_id |-> IntV(<<"7">>),
     command_line |-> StrV(<<"a", "@", "b", ".", "c", " ", "/", "h", "o", "m", "e", "/", "a", "l">>),
     tool_id |-> StrV(<<"a", "@", "b", ".", "c">>)],
    [user_id |-> NoneV],
    [history_id |-> IntV(<<"9">>), command_line |-> IntV(<<"5">>),
     tool_id |-> StrV(<<"q", "\"", "\\">>)] }

FileElements ==
  {DictElem(r) : r \in FileRecords} \cup {OtherElem(IntV(<<"5">>)), OtherElem(StrV(<<"s">>))}

RECURSIVE SeqsUpTo(_, _)
SeqsUpTo(S, n) ==
  IF n = 0 THEN {<<>>}
  ELSE LET shorter == SeqsUpTo(S, n - 1)
       IN shorter \cup {Append(q, x) : q \in shorter, x \in S}

OtherRoots ==
  { RootDict(EmptyDict), RootDict([a |-> IntV(<<"1">>)]), RootScalar(StrV(<<>>)),
    RootScalar(StrV(<<"a", "b">>)), RootScalar(IntV(<<"5">>)), RootScalar(NoneV) }

InvalidTexts == { <<>>, <<LBRACKET>>, <<LBRACKET, LBRACE, RBRACKET>> }

InputFiles ==
  {File(JsonDump(RootList(q))) : q \in SeqsUpTo(FileElements, MaxFileLen)}
  \cup {File(JsonDump(r)) : r \in OtherRoots}
  \cup {File(t) : t \in InvalidTexts}
  \cup {MissingFile}

OLD_TEXT == <<DumpStr(<<"o", "l", "d">>)>>

Destinations ==
  { Dest(FALSE, MissingFile), Dest(TRUE, MissingFile), Dest(TRUE, File(OLD_TEXT)) }

RaiseFrom(type, origin) ==
  /\ sf_pc' = "raised"
  /\ sf_error' = [type |-> type, origin |-> origin]

\* lines 126-129: data = load_json(input_path), then len(data) when verbose
Load ==
  /\ sf_pc = "start"
  /\ LET r == load_json(sf_input)
     IN IF r.raised
        THEN RaiseFrom(r.type, "load_json") /\ UNCHANGED <<sf_loaded, sf_data>>
        ELSE /\ sf_loaded' = r.value
             /\ sf_data' = r.value
             /\ IF sf_verbose /\ LenRaises(r.value)
                THEN RaiseFrom("TypeError", "len")
                ELSE sf_pc' = "loop" /\ UNCHANGED sf_error
  /\ UNCHANGED <<sf_input, sf_verbose, sf_i, sf_dest0, sf_dest, sf_mkdir>>
  /\ UNCHANGED <<sanitizeVars, redactVars, fileVars, recordVars>>

\* lines 131-135: enumerate(data) and one pass of the loop body
SanitizeNext ==
  /\ sf_pc = "loop"
  /\ IF LenRaises(sf_data)
     THEN RaiseFrom("TypeError", "enumerate") /\ UNCHANGED <<sf_data, sf_i>>
     ELSE /\ sf_i < Len(Elements(sf_data))
          /\ LET e == Elements(sf_data)[sf_i + 1]
             IN IF ~e.isdict
                THEN /\ RaiseFrom(SanitizeRecordError(e), "sanitize_record")
                     /\ UNCHANGED <<sf_data, sf_i>>
                ELSE /\ sf_data' = SanitizeInPlace(sf_data, sf_i + 1)
                     /\ sf_i' = sf_i + 1
                     /\ UNCHANGED <<sf_pc, sf_error>>
  /\ UNCHANGED <<sf_input, sf_verbose, sf_loaded, sf_dest0, sf_dest, sf_mkdir>>
  /\ UNCHANGED <<sanitizeVars, redactVars, fileVars, recordVars>>

\* save_json line 56: filepath.parent.mkdir(parents=True, exist_ok=True); it can
\* fail only where the directory is not there yet
Mkdir ==
  /\ sf_pc = "loop"
  /\ ~LenRaises(sf_data)
  /\ LoopFinished(sf_data, sf_i)
  /\ sf_mkdir' = TRUE
  /\ \/ /\ sf_dest' = [sf_dest EXCEPT !.dir = TRUE]
        /\ sf_pc' = "save"
        /\ UNCHANGED sf_error
     \/ /\ ~sf_dest.dir
        /\ RaiseFrom("OSError", "save_json")
        /\ UNCHANGED sf_dest
  /\ UNCHANGED <<sf_input, sf_verbose, sf_loaded, sf_data, sf_i, sf_dest0>>
  /\ UNCHANGED <<sanitizeVars, redactVars, fileVars, recordVars>>

\* save_json lines 58-62: gzip.open(filepath, 'wt') and json.dump(data, f); the
\* open can fail, and the write can stop after any number of tokens
Write ==
  /\ sf_pc = "save"
  /\ LET t == JsonDump(sf_data)
     IN \/ /\ sf_dest' = [sf_dest EXCEPT !.file = File(t)]
           /\ sf_pc' = "done"
           /\ UNCHANGED sf_error
        \/ /\ RaiseFrom("OSError", "save_json")
           /\ UNCHANGED sf_dest
        \/ /\ \E n \in 0..(Len(t) - 1) :
                sf_dest' = [sf_dest EXCEPT !.file = File(SubSeq(t, 1, n))]
           /\ RaiseFrom("OSError", "save_json")
  /\ UNCHANGED <<sf_input, sf_verbose, sf_loaded, sf_data, sf_i, sf_dest0, sf_mkdir>>
  /\ UNCHANGED <<sanitizeVars, redactVars, fileVars, recordVars>>

InitSanitizeFile ==
  /\ sf_input \in InputFiles
  /\ sf_verbose \in BOOLEAN
  /\ sf_pc = "start"
  /\ sf_loaded = RootScalar(NoneV) /\ sf_data = RootScalar(NoneV) /\ sf_i = 0
  /\ sf_error = NoError
  /\ sf_dest0 \in Destinations /\ sf_dest = sf_dest0
  /\ sf_mkdir = FALSE
  /\ SanitizeIdle /\ RedactIdle /\ FileIdle /\ RecordIdle

NextSanitizeFile == Load \/ SanitizeNext \/ Mkdir \/ Write

SpecSanitizeFile == InitSanitizeFile /\ [][NextSanitizeFile]_vars

(****************************** claims *************************************)
RemovedFieldNames == {"session_id", "history_id"}
RedactedFieldNames ==
  {"command_line", "tool_stderr", "tool_stdout", "job_stderr", "job_stdout",
   "traceback", "info"}

\* C1: whatever the input dict held, the dict returned by sanitize_record has
\* neither the key session_id nor the key history_id.
C1_RemovedFieldsAbsent ==
  \A n \in 1..Len(results) : DOMAIN results[n] \cap RemovedFieldNames = {}

\* C1 witness: a dict that held session_id and lacked history_id has been sanitized
C1_Witness ==
  /\ results # <<>>
  /\ "session_id" \in DOMAIN original /\ "history_id" \notin DOMAIN original

DigitVal(c) == CHOOSE n \in 0..9 : <<"0", "1", "2", "3", "4", "5", "6", "7", "8", "9">>[n + 1] = c

RECURSIVE DecLess(_, _)
\* a < b for decimal texts of equal length
DecLess(a, b) ==
  IF a = <<>> THEN FALSE
  ELSE IF Head(a) # Head(b) THEN DigitVal(Head(a)) < DigitVal(Head(b))
  ELSE DecLess(Tail(a), Tail(b))

\* d is the decimal text of an integer n with 0 <= n < 2^32
Below2Pow32(d) ==
  /\ Len(d) >= 1 /\ \A k \in 1..Len(d) : d[k] \in Digit
  /\ (Len(d) > 1 => d[1] # "0")
  /\ \/ Len(d) < 10
     \/ Len(d) = 10 /\ DecLess(d, <<"4", "2", "9", "4", "9", "6", "7", "2", "9", "6">>)

\* C2: a null user_id stays null, a non-null one becomes a non-negative integer
\* below 2^32, and two records with equal user_id values (Python ==) get equal
\* user_id values from sanitize_record.
C2_EqualIdsEqualPseudonyms ==
  (results # <<>> /\ "user_id" \in DOMAIN original) =>
    LET uin == original["user_id"]
        uout == results[1]["user_id"]
    IN /\ (uin = NoneV => uout = NoneV)
       /\ (uin # NoneV => uout.t = "int" /\ Below2Pow32(uout.s))
       /\ ((prev.has /\ PyEq(prev.uid, uin)) => PyEq(prev.out, uout))

\* C3: sanitize_record leaves every key that is not user_id, a removed field or a
\* redacted-text field with the value it had, and adds no key.
C3_OtherFieldsUnchanged ==
  \A n \in 1..Len(results) :
    /\ DOMAIN results[n] \subseteq DOMAIN original
    /\ \A k \in DOMAIN original \ ({"user_id"} \cup RemovedFieldNames \cup RedactedFieldNames) :
         k \in DOMAIN results[n] /\ results[n][k] = original[k]

\* C3 witness: a dict with an e-mail address in tool_id and a command_line that
\* redaction changed has been sanitized
C3_Witness ==
  /\ results # <<>>
  /\ "tool_id" \in DOMAIN original /\ "command_line" \in DOMAIN original
  /\ results[1]["command_line"] # original["command_line"]

\* lit occurs in t
Occurs(t, lit) == \E p \in 1..Len(t) : StartsWith(t, p, lit)

NoPatternMatches(t) ==
  \A p \in 1..Len(t) :
    EMAIL_PATTERN(t, p) = 0 /\ HOME_PATH_PATTERN(t, p) = 0 /\ USER_PATH_PATTERN(t, p) = 0

\* C4: redact_text applied to its own output returns it unchanged, and no pattern
\* matches anywhere in the output of redact_text.
C4_RedactIdempotent ==
  /\ \A n \in 2..Len(redactions) : redactions[n] = redactions[n - 1]
  /\ \A n \in 1..Len(redactions) : NoPatternMatches(redactions[n].s)

\* C4 witness: a text that redaction changed into one holding [USER] was redacted twice
C4_Witness ==
  /\ Len(redactions) >= 2
  /\ redactions[1] # text
  /\ Occurs(redactions[1].s, <<"[", "U", "S", "E", "R", "]">>)

\* the maximal non-whitespace runs of t, in order
RECURSIVE Runs(_, _)
Runs(t, p) ==
  IF p > Len(t) THEN <<>>
  ELSE IF IsSpace(t[p]) THEN Runs(t, p + 1)
  ELSE <<SubSeq(t, p, NonSpaceEnd(t, p))>> \o Runs(t, NonSpaceEnd(t, p) + 1)

\* the run holds an '@' and a '.' somewhere after it
HasAtThenDot(run) ==
  \E i \in 1..Len(run) : run[i] = "@" /\ \E j \in (i + 1)..Len(run) : run[j] = "."

\* the run holds an '@' that is not its first character and, at least two places
\* after it, a '.' that is not its last character
HasLocalAtHostDotTld(run) ==
  \E i \in 2..Len(run) :
    run[i] = "@" /\ \E j \in (i + 2)..(Len(run) - 1) : run[j] = "."

EmailPlaceholder == <<"[", "E", "M", "A", "I", "L", "]">>

\* C5 as claimed: every non-whitespace run holding an '@' and a later '.' is
\* replaced by [EMAIL].
C5_EveryAtDotRunReplaced ==
  (redactions # <<>> /\ Truthy(text)) =>
    LET rin == Runs(text.s, 1)
        rout == Runs(redactions[1].s, 1)
    IN /\ Len(rout) = Len(rin)
       /\ \A k \in 1..Len(rin) : HasAtThenDot(rin[k]) => rout[k] = EmailPlaceholder

\* C5 amended: every non-whitespace run holding an '@' with a character before it
\* and a '.' with a character between the '@' and it and a character after it is
\* replaced by [EMAIL], each such run of the text, and none survives.
C5_EveryEmailRunReplaced ==
  (redactions # <<>> /\ Truthy(text)) =>
    LET rin == Runs(text.s, 1)
        rout == Runs(redactions[1].s, 1)
    IN /\ Len(rout) = Len(rin)
       /\ \A k \in 1..Len(rin) :
            HasLocalAtHostDotTld(rin[k]) => rout[k] = EmailPlaceholder
       /\ \A k \in 1..Len(rout) : ~HasLocalAtHostDotTld(rout[k])

\* C5 witness: a text with two e-mail runs has been redacted
C5_Witness ==
  /\ redactions # <<>>
  /\ \E k1, k2 \in 1..Len(Runs(text.s, 1)) :
       /\ k1 < k2
       /\ HasLocalAtHostDotTld(Runs(text.s, 1)[k1])
       /\ HasLocalAtHostDotTld(Runs(text.s, 1)[k2])

\* C6: a second sanitize_record call on an already sanitized dict returns it
\* unchanged in every field.
C6_SanitizeIdempotent ==
  \A n \in 2..Len(results) : results[n] = results[n - 1]

ValidateReturned == outcome.checked # -1 /\ ~outcome.raised /\ root.kind = "array"

CountOf(errs, m) == Cardinality({k \in 1..Len(errs) : errs[k] = m})

\* C7: the error list validate_file returns holds at most 100 error messages plus
\* at most one truncation marker, and total_records is the length of the array.
C7_ErrorListWithinCap ==
  ValidateReturned =>
    /\ Len(outcome.errors) - CountOf(outcome.errors, STOPPED_MARKER) <= 100
    /\ CountOf(outcome.errors, STOPPED_MARKER) <= 1
    /\ outcome.stats.total_records = Len(root.data)

\* C8: when the error list went past the cap of 100, the "stopped after 100
\* errors" marker is in the returned list exactly once, as its last element.
C8_MarkerOnceAndLast ==
  (ValidateReturned /\ Len(outcome.errors) > 100) =>
    /\ CountOf(outcome.errors, STOPPED_MARKER) = 1
    /\ outcome.errors[Len(outcome.errors)] = STOPPED_MARKER

\* a field-level defect of a dict: a required field missing, a field whose value
\* has a type that is not acceptable for it, or a create_time text out of format
HasFieldDefect(d) ==
  \/ \E k \in 1..Len(REQUIRED_FIELDS) :
       LET f == REQUIRED_FIELDS[k]
       IN f.name \notin DOMAIN d \/ ~IsInstance(d[f.name], f.types)
  \/ \E k \in 1..Len(OPTIONAL_FIELDS) :
       LET f == OPTIONAL_FIELDS[k]
       IN f.name \in DOMAIN d /\ ~IsInstance(d[f.name], f.types)
  \/ /\ "create_time" \in DOMAIN d /\ d["create_time"].t = "str"
     /\ d["create_time"].s # <<>> /\ ~LooksIso8601(d["create_time"])

\* an array of dicts whose field-level defects all lie at index >= n, with one there
DefectsOnlyBeyond(data, n) ==
  /\ \A k \in 1..Len(data) : data[k].isdict
  /\ \A k \in 1..Len(data) : k <= n => ~HasFieldDefect(data[k].d)
  /\ \E k \in 1..Len(data) : k > n /\ HasFieldDefect(data[k].d)

\* C9: on an array of dicts whose only field-level defects are at index >= n,
\* validate_file with sample_size = n > 0 returns is_valid = true and
\* validate_file with sample_size = 0 returns is_valid = false.
C9_SampleChecksPrefixOnly ==
  (outcome.checked # -1 /\ root.kind = "array" /\ sample_size > 0
     /\ DefectsOnlyBeyond(root.data, sample_size)) =>
    /\ ~outcome.raised /\ outcome.is_valid
    /\ LET full == validate_file(root, 0) IN ~full.raised /\ ~full.is_valid

\* C10: for a dict record at index i, validate_record returns errors that hold,
\* for every required field f, a message naming i and f when f is absent, a
\* message naming i, f and the observed type when f has an unacceptable type, and
\* no such message when f is present with an acceptable type.
C10_RequiredFieldMessages ==
  (rec_out # <<>> /\ rec_in.isdict) =>
    LET o == rec_out[1]
        d == rec_in.d
    IN /\ ~o.raised
       /\ \A k \in 1..Len(REQUIRED_FIELDS) :
            LET f == REQUIRED_FIELDS[k]
                missing == Msg(rec_index, "missing required field", f.name, "")
                aboutType == {n \in 1..Len(o.errors) :
                                /\ o.errors[n].index = rec_index
                                /\ o.errors[n].field = f.name
                                /\ o.errors[n].kind = "wrong type, expected"}
            IN IF f.name \notin DOMAIN d
               THEN CountOf(o.errors, missing) >= 1
               ELSE IF ~IsInstance(d[f.name], f.types)
               THEN \E n \in aboutType : o.errors[n].got = d[f.name].t
               ELSE CountOf(o.errors, missing) = 0 /\ aboutType = {}

\* the statement of C9 with a full run that raises set aside: it holds
C9_ExceptRaising ==
  (outcome.checked # -1 /\ root.kind = "array" /\ sample_size > 0
     /\ DefectsOnlyBeyond(root.data, sample_size)) =>
    /\ ~outcome.raised /\ outcome.is_valid
    /\ LET full == validate_file(root, 0) IN full.raised \/ ~full.is_valid

\* the statement of C10 for the calls that return: it holds
C10_ExceptRaising ==
  (rec_out # <<>> /\ rec_in.isdict /\ ~rec_out[1].raised) => C10_RequiredFieldMessages

\* C11: on a file whose JSON root is an array, validate_file returns its
\* (is_valid, report, errors) triple whatever the records hold; it never raises.
C11_ValidateNeverRaises ==
  (outcome.checked # -1 /\ root.kind = "array") => ~outcome.raised

\* C12: for a missing file, unparseable JSON or a root that is not an array,
\* validate_file returns is_valid = false, an empty report and exactly one error
\* message, and does not raise.
C12_LoadFailureShortCircuits ==
  (outcome.checked # -1 /\ root.kind # "array") =>
    /\ ~outcome.raised
    /\ ~outcome.is_valid
    /\ outcome.stats.empty
    /\ outcome.stats.total_records = 0 /\ outcome.stats.fields_found = {}
    /\ outcome.stats.states_found = {}
    /\ Len(outcome.errors) = 1
    /\ outcome.errors[1].kind \in
         {"Invalid JSON", "Error loading file", "JSON root must be an array of records"}
    /\ outcome.checked = 0

\* C12 witness: validate_file has answered for a root that is a JSON object
C12_Witness == outcome.checked # -1 /\ root.kind = "object"

\* C13: records_validated in the report is the number of records validate_record
\* was called on during the run, also when the loop stopped at the error cap.
C13_RecordsValidatedIsCallCount ==
  ValidateReturned => outcome.stats.records_validated = outcome.checked

\* what json.load makes of the input file's text
InputRoot == JsonLoad(sf_input.text)

\* C14: once loading is over, a missing input has made it fail with
\* FileNotFoundError, and an input that is no valid JSON or whose root is no array
\* has made it fail in load_json with a decoding error, so that a root that is no
\* array never reaches the loop over the records.
C14_LoadRejectsNonArrayRoot ==
  sf_pc # "start" =>
    /\ ~sf_input.exists =>
         sf_pc = "raised" /\ sf_error = [type |-> "FileNotFoundError", origin |-> "load_json"]
    /\ (sf_input.exists /\ (~InputRoot.ok \/ InputRoot.value.kind # "list")) =>
         sf_pc = "raised" /\ sf_error = [type |-> "JSONDecodeError", origin |-> "load_json"]

\* neither mkdir nor a write has reached the destination
DestinationUntouched == sf_dest = sf_dest0 /\ ~sf_mkdir

\* C15: a run of sanitize_file that failed in load_json or in a sanitize_record
\* call has neither created the destination's directory nor written to the
\* destination file, and the destination is touched only in runs whose load
\* succeeded and whose loop has passed every element, each of them a dict.
C15_DestinationTouchedOnlyAfterLoop ==
  /\ (sf_pc = "raised" /\ sf_error.origin \in {"load_json", "sanitize_record"}) =>
       DestinationUntouched
  /\ ~DestinationUntouched =>
       /\ ~load_json(sf_input).raised
       /\ sf_error.origin \in {"", "save_json"}
       /\ sf_i = Len(Elements(sf_loaded))
       /\ \A j \in 1..Len(Elements(sf_loaded)) : Elements(sf_loaded)[j].isdict

\* C15 witness: the second element made sanitize_record fail after the first had
\* been sanitized, with a file already at the destination
C15_Witness ==
  /\ sf_pc = "raised" /\ sf_error.origin = "sanitize_record" /\ sf_i = 1
  /\ sf_dest0.file.exists /\ sf_dest = sf_dest0

\* C16: when sanitize_file has returned for an input array, the destination's
\* text loads as an array of the same length whose j-th element is
\* sanitize_record of the j-th loaded element, every field that is not
\* pseudonymized, removed or redacted there with its loaded value.
C16_SavedIsSanitizedInOrder ==
  (sf_pc = "done" /\ sf_loaded.kind = "list") =>
    LET saved == JsonLoad(sf_dest.file.text)
    IN /\ saved.ok /\ saved.value.kind = "list"
       /\ Len(saved.value.items) = Len(sf_loaded.items)
       /\ \A j \in 1..Len(sf_loaded.items) :
            /\ saved.value.items[j] = DictElem(sanitize_record(sf_loaded.items[j].d))
            /\ \A k \in DOMAIN sf_loaded.items[j].d \
                   ({"user_id"} \cup RemovedFieldNames \cup RedactedFieldNames) :
                 /\ k \in DOMAIN saved.value.items[j].d
                 /\ saved.value.items[j].d[k] = sf_loaded.items[j].d[k]

\* C16 witness: an array of two different dicts was saved, the first with fields
\* to pseudonymize, to remove, to redact and to keep
C16_Witness ==
  /\ sf_pc = "done" /\ sf_loaded.kind = "list" /\ Len(sf_loaded.items) = 2
  /\ sf_loaded.items[1] # sf_loaded.items[2]
  /\ {"user_id", "session_id", "command_line", "tool_id"} \subseteq DOMAIN sf_loaded.items[1].d
  /\ sf_data.items[1] # sf_loaded.items[1]

\* every element is a dict on which validate_record returns no errors
AllClean(data) ==
  \A k \in 1..Len(data) :
    data[k].isdict /\ validate_record(data[k], k - 1) = Returned(<<>>)

\* C17 as claimed: an array, the empty one included, of dicts without errors is
\* reported valid with no errors by validate_file with sample_size = 0.
C17_CleanArrayValid ==
  (outcome.checked # -1 /\ root.kind = "array" /\ sample_size = 0 /\ AllClean(root.data)) =>
    ~outcome.raised /\ outcome.is_valid /\ outcome.errors = <<>>

\* C17 amended: a non-empty array of dicts without errors is reported valid with
\* no errors by validate_file with sample_size = 0.
C17_CleanNonEmptyArrayValid ==
  (outcome.checked # -1 /\ root.kind = "array" /\ sample_size = 0 /\ AllClean(root.data)
     /\ Len(root.data) >= 1) =>
    ~outcome.raised /\ outcome.is_valid /\ outcome.errors = <<>>

\* C17 witness: two different dicts without errors were validated in full
C17_Witness ==
  /\ outcome.checked # -1 /\ root.kind = "array" /\ sample_size = 0
  /\ Len(root.data) = 2 /\ AllClean(root.data) /\ root.data[1] # root.data[2]

====
